---- MODULE Spec2Model ----
(***************************************************************************)
(* The astronomical-data adapter of the lunar phase card (class Moon,      *)
(* src/src/utils/moon.ts) as a state machine.                              *)
(*                                                                         *)
(* An adapter is an immutable record of its constructor's fields.  Each    *)
(* action is one call of a public member on one adapter; the answers of    *)
(* the astronomical source (SunCalc), the current moment, the time zone    *)
(* and the behaviour of localStorage are the environment, drawn with \E.   *)
(* SunCalc is a pure function of (instant, latitude, longitude): the       *)
(* answers it has given are remembered and every later query with the same *)
(* arguments gets the same answer.                                         *)
(*                                                                         *)
(* Numbers are fixed point.  Strings are kept as the pieces the code       *)
(* concatenates.  A JavaScript exception ends the call with outcome        *)
(* "raised".                                                               *)
(***************************************************************************)
EXTENDS Integers, Sequences, FiniteSets, TLC

VARIABLES
    adapters,          \* id -> the fields set by the constructor
    now,               \* the current moment (new Date()), minutes
    moonDataAnswers,   \* <<instant, lat, lon>> -> answer of SunCalc.getMoonData
    moonTimesAnswers,  \* <<instant, lat, lon>> -> answer of SunCalc.getMoonTimes
    timeZone,          \* the host's time zone: where the UTC offset changes, by how much
    localStorage,      \* key -> stored string
    last,              \* the last call: member, adapter, outcome, result
    imageLog           \* id -> results of the first and the latest moonImage

vars == <<adapters, now, moonDataAnswers, moonTimesAnswers, timeZone, localStorage, last, imageLog>>

-----------------------------------------------------------------------------
(* Bounds of the model *)

AzimuthScale == 2      \* azimuth is kept in 1/AzimuthScale degree
MaxAzimuthDeg == 360   \* azimuths 0..MaxAzimuthDeg degrees
PhaseDen == 62         \* phaseValue is kept as k / PhaseDen
FractionDen == 4       \* illumination fraction is kept as f / FractionDen
MaxMilli == 9          \* thousandths of a kilometre in a distance
AngleSteps == 3        \* zenith and parallactic angle, in steps of pi/12
MaxAltitude == 2       \* altitude at 'now' in -MaxAltitude..MaxAltitude degrees
MaxNow == 2            \* the clock advances MaxNow times

-----------------------------------------------------------------------------
(* JavaScript values *)

Undefined == [undefined |-> TRUE]
Str(s) == [kind |-> "literal", s |-> s]
NaN == [kind |-> "NaN"]
DateOf(t) == [kind |-> "Date", t |-> t]

\* x || false, for a flag that may be missing from the configuration
OrFalse(x) == IF x = "true" THEN TRUE ELSE FALSE

\* Truthiness of a value that is a Date object, NaN or undefined
Truthy(x) == x # NaN /\ x # Undefined

\* new Date(time) is an Invalid Date exactly when time is NaN or undefined;
\* toISOString() and Intl formatting throw RangeError on an Invalid Date
IsInvalidDate(x) == ~Truthy(x)

\* n / d rounded to the nearest integer, halves away from zero
\* (Number.prototype.toFixed on a value that is exact in the model)
RoundHalfUp(n, d) ==
    IF n >= 0 THEN (2 * n + d) \div (2 * d)
    ELSE -((2 * (-n) + d) \div (2 * d))

\* Math.round: nearest integer, halves towards +infinity
MathRound(n, d) == (2 * n + d) \div (2 * d)

Langs == {"cs", "de", "fi", "fr", "sk", "sv", "en", "es"}
Flags == {"true", "false", "undefined"}
Locales == {"comma_decimal", "decimal_comma"}

-----------------------------------------------------------------------------
(* Collaborators of the adapter that live in other files of the repository *)

\* localize(string, lang, search, replace): a lookup in the language's table,
\* with the placeholder replaced; never the empty string
Localize(key, lang, replace) ==
    [kind |-> "localized", key |-> key, lang |-> lang, arg |-> replace]

MinutesPerDay == 24 * 60

\* The wall clock (minute of the local day) at instant t
WallClock(t, tz) ==
    (t + (IF t >= tz.transition THEN tz.shift ELSE 0)) % MinutesPerDay

\* formatedTime(time, amPm, lang): the wall-clock time of day as hours and
\* minutes, on a 12-hour clock with its day period when amPm is set
FormatedTime(time, amPm, lang, tz) ==
    LET w == WallClock(time.t, tz)
        h == w \div 60
    IN  [kind |-> "time",
         hour |-> IF amPm THEN (IF h % 12 = 0 THEN 12 ELSE h % 12) ELSE h,
         minute |-> w % 60,
         period |-> IF amPm THEN (IF h < 12 THEN "AM" ELSE "PM") ELSE "",
         lang |-> lang]

\* formatRelativeTime(iso): the signed distance from the current moment, as a
\* localization key and an optional count
FormatRelativeTime(t, current) ==
    LET d == t - current
        a == IF d < 0 THEN -d ELSE d
    IN  IF a < 60
        THEN [key |-> IF d < 0 THEN "card.relativeTime.minutesAgo" ELSE "card.relativeTime.inMinutes",
              value |-> [kind |-> "count", n |-> a]]
        ELSE IF a < MinutesPerDay
        THEN [key |-> IF d < 0 THEN "card.relativeTime.hoursAgo" ELSE "card.relativeTime.inHours",
              value |-> [kind |-> "count", n |-> a \div 60]]
        ELSE [key |-> IF d < 0 THEN "card.relativeTime.yesterday" ELSE "card.relativeTime.tomorrow",
              value |-> Undefined]

MilesPerKmMicro == 621371   \* 0.621371 miles in a kilometre

\* A distance is [whole, nano]: whole units and billionths of a unit.
\* convertKmToMiles(km, useMiles): km * 0.621371 when useMiles, else km.
\* The product is formed in three partial products to stay within 32 bits.
ConvertKmToMilesHelper(km, useMiles) ==
    IF ~useMiles THEN km
    ELSE LET a == (km.whole \div 1000) * MilesPerKmMicro       \* thousandths of a mile
             b == (km.whole % 1000) * MilesPerKmMicro          \* millionths
             c == (km.nano \div 1000000) * MilesPerKmMicro     \* billionths
             r1 == (a % 1000) * 1000000 + (b % 1000000) * 1000
             r2 == (r1 % 1000000000) + c
         IN  [whole |-> (a \div 1000) + (b \div 1000000) + (r1 \div 1000000000)
                        + (r2 \div 1000000000),
              nano |-> r2 % 1000000000]

\* formatNumber(num, locale): the digits of num with the locale's separators
FormatNumber(num, digits, locale) ==
    [kind |-> "number", scaled |-> num, digits |-> digits, locale |-> locale]

\* the 31 pictures of ../utils/moon-pic
MOON_IMAGES == [i \in 0..30 |-> [kind |-> "picture", n |-> i]]

-----------------------------------------------------------------------------
(* The adapter *)

\* constructor(data)
Constructor(data) ==
    [_date |-> data.date,
     lang |-> data.lang,
     location |-> [latitude |-> data.config.latitude, longitude |-> data.config.longitude],
     locale |-> data.locale,
     amPm |-> OrFalse(data.config.hr12_format),
     useMiles |-> OrFalse(data.config.mile_unit)]

\* this.localize
AdapterLocalize(self, key, replace) == Localize(key, self.lang, replace)

\* this.formatTime
FormatTime(self, time, tz) == FormatedTime(time, self.amPm, self.lang, tz)

\* this.convertKmToMiles
ConvertKmToMiles(self, km) == ConvertKmToMilesHelper(km, self.useMiles)

\* x.toFixed(2) of a distance
DistanceToFixed2(x) == x.whole * 100 + (x.nano + 5000000) \div 10000000

\* Mutant: the getters ask about the current moment, not about this._date
SourceKeyNow(self) == <<now, self.location.latitude, self.location.longitude>>

\* the arguments of the getters _moonData, _moonTime and _moonPosition
SourceKey(self) == <<self._date, self.location.latitude, self.location.longitude>>

\* Mutant: "fr" is missing from the list of languages
BlackBeforeUnitNoFr(self, unit) ==
    IF unit = Str("°") THEN Str("")
    ELSE IF unit = Str("%")
         THEN IF self.lang \in {"cs", "de", "fi", "sk", "sv"} THEN Str(" ") ELSE Str("")
         ELSE Str(" ")

\* blackBeforeUnit(unit)
BlackBeforeUnit(self, unit) ==
    IF unit = Str("°") THEN Str("")
    ELSE IF unit = Str("%")
         THEN IF self.lang \in {"cs", "de", "fi", "fr", "sk", "sv"} THEN Str(" ") ELSE Str("")
         ELSE Str(" ")

Falsy(s) == s = Undefined \/ s = Str("")

\* createItem(label, value, unit?, secondValue?); the template literal of
\* value is kept as its three pieces
CreateItem(self, label, value, unit, secondValue) ==
    [label |-> AdapterLocalize(self, "card." \o label, Str("")),
     value |-> [text |-> value,
                sep |-> IF Falsy(unit) THEN Str("") ELSE BlackBeforeUnit(self, unit),
                unit |-> IF Falsy(unit) THEN Str("") ELSE unit],
     secondValue |-> IF Falsy(secondValue) THEN Str("") ELSE secondValue]

Raised(error) == [raised |-> error]
IsRaised(r) == r = Raised("RangeError") \/ r = Raised("DOMException")

\* createMoonTime(key, time)
CreateMoonTime(self, key, time, current, tz) ==
    IF IsInvalidDate(time) THEN Raised("RangeError")
    ELSE LET relativeTime == FormatRelativeTime(time.t, current)
             timeString == FormatTime(self, time, tz)
             secondValue == IF Truthy(relativeTime.value)
                            THEN AdapterLocalize(self, relativeTime.key, relativeTime.value)
                            ELSE AdapterLocalize(self, relativeTime.key, Str(""))
         IN  CreateItem(self, key, timeString, Str(""), secondValue)

\* (29.53).toFixed(2) of the synodic month, in hundredths of a day
SynodicCenti == 2953

\* shortTime(date) of moonData: the date in the language's short form
ShortTime(self, date) == [kind |-> "shortDate", t |-> date.t, lang |-> self.lang]

\* Mutant: the kilometres are rounded to 2 decimals before the conversion
DistanceItemRoundFirst(self, distance) ==
    LET h == DistanceToFixed2(distance)
        rounded == [whole |-> h \div 100, nano |-> (h % 100) * 10000000]
    IN  CreateItem(self, "distance",
                   FormatNumber(DistanceToFixed2(ConvertKmToMiles(self, rounded)), 2, self.locale),
                   IF self.useMiles THEN Str("mi") ELSE Str("km"), Undefined)

\* The distance item of moonData
DistanceItem(self, distance) ==
    CreateItem(self, "distance",
               FormatNumber(DistanceToFixed2(ConvertKmToMiles(self, distance)), 2, self.locale),
               IF self.useMiles THEN Str("mi") ELSE Str("km"), Undefined)

\* The moonHighest field of moonData
HighestItem(self, highest, current, tz) ==
    IF Truthy(highest) THEN CreateMoonTime(self, "moonHigh", highest, current, tz)
    ELSE Undefined

\* get moonData(): the snapshot, or the exception that ends the call
MoonData(self, data, times, current, tz) ==
    LET moonFraction == FormatNumber(RoundHalfUp(data.fraction * 10000, FractionDen), 2, self.locale)
        moonAge == FormatNumber(RoundHalfUp(data.phaseValue * SynodicCenti, PhaseDen), 2, self.locale)
        azimuth == FormatNumber(RoundHalfUp(data.azimuthDegrees * 100, AzimuthScale), 2, self.locale)
        altitude == FormatNumber(data.altitudeDegrees * 100, 2, self.locale)
        moonRise == CreateMoonTime(self, "moonRise", times.rise, current, tz)
        moonSet == CreateMoonTime(self, "moonSet", times.set, current, tz)
        moonHighest == HighestItem(self, times.highest, current, tz)
    IN  IF IsRaised(moonRise) THEN moonRise
        ELSE IF IsRaised(moonSet) THEN moonSet
        ELSE IF IsRaised(moonHighest) THEN moonHighest
        ELSE [moonFraction |-> CreateItem(self, "illumination", moonFraction, Str("%"), Undefined),
              moonAge |-> CreateItem(self, "moonAge", moonAge,
                                     AdapterLocalize(self, "card.relativeTime.days", Str("")),
                                     Undefined),
              moonRise |-> moonRise,
              moonSet |-> moonSet,
              moonHighest |-> moonHighest,
              distance |-> DistanceItem(self, data.distance),
              azimuthDegress |-> CreateItem(self, "azimuth", azimuth, Str("°"), Undefined),
              altitudeDegrees |-> CreateItem(self, "altitude", altitude, Str("°"), Undefined),
              nextFullMoon |-> CreateItem(self, "fullMoon", ShortTime(self, data.fullMoon),
                                          Undefined, Undefined),
              nextNewMoon |-> CreateItem(self, "newMoon", ShortTime(self, data.newMoon),
                                         Undefined, Undefined)]

\* Mutant: 32 pictures are assumed
PhaseIndex32(phaseValue) == ((phaseValue * 32) \div PhaseDen) % 32

\* Math.floor(phaseValue * 31) % 31 of moonImage
PhaseIndex(phaseValue) == ((phaseValue * 31) \div PhaseDen) % 31

\* (zenithAngle - parallacticAngle) * (180 / Math.PI), the angles in steps of pi/12
RotateDeg(data) == (data.zenithAngle - data.parallacticAngle) * 15

\* get moonImage()
MoonImage(self, data) ==
    LET phaseIndex == PhaseIndex(data.phaseValue)
    IN  [moonPic |-> IF phaseIndex \in DOMAIN MOON_IMAGES THEN MOON_IMAGES[phaseIndex]
                     ELSE Undefined,
         rotateDeg |-> RotateDeg(data)]

\* _getMoonRotation()
GetMoonRotation(self, data) == RotateDeg(data)

cardinalPoints ==
    <<Str("N"), Str("NE"), Str("E"), Str("SE"), Str("S"), Str("SW"), Str("W"), Str("NW"), Str("N")>>

\* Mutant: Math.floor in place of Math.round
ConvertCardinalFloor(degrees) ==
    LET index == degrees \div (45 * AzimuthScale)
    IN  IF index + 1 \in DOMAIN cardinalPoints THEN cardinalPoints[index + 1] ELSE Undefined

\* Mutant: the table without its ninth entry
ConvertCardinalNoWrap(degrees) ==
    LET index == MathRound(degrees, 45 * AzimuthScale)
    IN  IF index + 1 \in 1..8 THEN cardinalPoints[index + 1] ELSE Undefined

\* _convertCardinal(degrees); arrays are indexed from 0 in the code
ConvertCardinal(degrees) ==
    LET index == MathRound(degrees, 45 * AzimuthScale)
    IN  IF index + 1 \in DOMAIN cardinalPoints THEN cardinalPoints[index + 1] ELSE Undefined

\* get todayDataItem()
TodayDataItem(self, data, times, current, tz) ==
    LET moonData == MoonData(self, data, times, current, tz)
        formatedPosition == IF data.altitudeDegrees > 0 THEN "overHorizon" ELSE "underHorizon"
        azimutDegFormated == FormatNumber(RoundHalfUp(data.azimuthDegrees, AzimuthScale), 0, self.locale)
        cardiNalValue == ConvertCardinal(data.azimuthDegrees)
    IN  IF IsRaised(moonData) THEN moonData
        ELSE [positionFormated |->
                  CreateItem(self, "position",
                             AdapterLocalize(self, "card." \o formatedPosition, Str("")),
                             Undefined, Undefined),
              azimuthCardinal |-> CreateItem(self, "direction", azimutDegFormated, Str("°"), cardiNalValue),
              _altitudeDegData |-> moonData.altitudeDegrees,
              _moonFraction |-> moonData.moonFraction,
              distance |-> moonData.distance]

-----------------------------------------------------------------------------
(* The altitude profile of a day *)

SamplesPerDay == 48   \* iterations of the loop of _getAltituteData
HalfHour == 30        \* minutes between two samples

\* The start of the local day that holds instant t: today.setHours(0, 0, 0, 0)
LocalDayStart(t, tz) ==
    IF t < tz.transition THEN t - (t % MinutesPerDay)
    ELSE LET m == t - ((t + tz.shift) % MinutesPerDay)
         IN  IF m >= tz.transition THEN m ELSE m + tz.shift

\* SunCalc.getMoonPosition(time, ...).altitudeDegrees, in thousandths of a
\* degree: the sky of the day is a curve that peaks at curve.peakAt
AltitudeAt(curve, t) ==
    LET d == IF t < curve.peakAt THEN curve.peakAt - t ELSE t - curve.peakAt
    IN  curve.top - curve.rate * (d \div HalfHour)

\* result[key] = value on a plain object: an own key keeps its place and
\* takes the new value, a new key is added last
ObjectSet(obj, key, value) ==
    IF \E j \in DOMAIN obj : obj[j].key = key
    THEN [j \in DOMAIN obj |-> IF obj[j].key = key THEN [key |-> key, value |-> value] ELSE obj[j]]
    ELSE Append(obj, [key |-> key, value |-> value])

\* Object.keys(obj) and Object.values(obj)
ObjectKeys(obj) == [j \in DOMAIN obj |-> obj[j].key]
ObjectValues(obj) == [j \in DOMAIN obj |-> obj[j].value]

\* The loop of _getAltituteData from iteration i on.  The second test of the
\* exit condition never holds (result has at most i keys); it only makes the
\* evaluation of result strict.
RECURSIVE AltituteLoop(_, _, _, _, _, _)
AltituteLoop(self, startTime, curve, tz, i, result) ==
    IF i >= SamplesPerDay \/ Len(result) > i THEN result
    ELSE LET time == DateOf(startTime.t + i * HalfHour)
             formatedTime == FormatTime(self, time, tz)
             altitude == RoundHalfUp(AltitudeAt(curve, time.t), 10)   \* hundredths
         IN  AltituteLoop(self, startTime, curve, tz, i + 1,
                          ObjectSet(result, formatedTime, altitude))

\* _getAltituteData(startTime)
GetAltituteData(self, startTime, curve, tz) ==
    AltituteLoop(self, startTime, curve, tz, 0, <<>>)

\* Math.max(...q) and Math.min(...q) of a non-empty list
SeqMax(q) == CHOOSE m \in {q[j] : j \in DOMAIN q} : \A j \in DOMAIN q : q[j] <= m
SeqMin(q) == CHOOSE m \in {q[j] : j \in DOMAIN q} : \A j \in DOMAIN q : q[j] >= m

\* Mutant: Math.floor in place of Math.ceil
MathCeilAsFloor(n, d) == n \div d

\* Math.ceil(n / d)
MathCeil(n, d) == -((-n) \div d)

\* The object todayData returns, given its _altitudeData
TodayDataContent(self, _altitudeData, altitude, times, data) ==
    [time |-> times,
     altitude |-> altitude,
     timeLabels |-> ObjectKeys(_altitudeData),
     altitudeData |-> ObjectValues(_altitudeData),
     minMaxY |-> [sugestedYMax |-> MathCeil(SeqMax(ObjectValues(_altitudeData)) + 1000, 100),
                  sugestedYMin |-> SeqMin(ObjectValues(_altitudeData)) - 1000],
     moonPhase |-> [fraction |-> data.fraction, phaseValue |-> data.phaseValue,
                    fullMoon |-> data.fullMoon, newMoon |-> data.newMoon],
     lang |-> [rise |-> AdapterLocalize(self, "card.moonRise", Str("")),
               set |-> AdapterLocalize(self, "card.moonSet", Str(""))]]

\* get todayData(); altitudes in hundredths of a degree, sugestedYMax in degrees
TodayData(self, current, curve, tz, times, data) ==
    LET startTime == DateOf(LocalDayStart(current, tz))
    IN  TodayDataContent(self, GetAltituteData(self, startTime, curve, tz),
                         GetAltituteData(self, startTime, curve, tz), times, data)

\* setMoonImagesToStorage(): what setItem is asked to store, MOON_IMAGES as a string
StoredImages == [kind |-> "joined", of |-> MOON_IMAGES]

-----------------------------------------------------------------------------
(* The environment *)

NowStep == 12 * 60   \* the clock advances in steps of NowStep minutes

\* The source is a function of its arguments: a remembered answer is repeated
Consistent(answers, key, a) == key \in DOMAIN answers => answers[key] = a
Remember(answers, key, a) == IF key \in DOMAIN answers THEN answers ELSE answers @@ (key :> a)

NoAnswers == [k \in {} |-> Undefined]

\* what the source answers about the moment of an adapter, once known
DataAnswer(id) == moonDataAnswers[SourceKey(adapters[id])]
TimesAnswer(id) == moonTimesAnswers[SourceKey(adapters[id])]

BaseData ==
    [distance |-> [whole |-> 384400, nano |-> 0],
     azimuthDegrees |-> 0, altitudeDegrees |-> 0,
     fraction |-> 0, phaseValue |-> 0,
     zenithAngle |-> 0, parallacticAngle |-> 0,
     fullMoon |-> DateOf(20 * MinutesPerDay), newMoon |-> DateOf(5 * MinutesPerDay)]

\* rise and set are a Date or NaN, highest is a Date or missing
AllTimes ==
    [rise : {NaN, DateOf(6 * 60)}, set : {NaN, DateOf(18 * 60 + 20)},
     highest : {Undefined, DateOf(12 * 60 + 10)}]

BaseTimes == [rise |-> DateOf(6 * 60), set |-> DateOf(18 * 60 + 20), highest |-> DateOf(12 * 60 + 10)]

NoDst == [transition |-> 0, shift |-> 0]

BaseConfig == [latitude |-> 0, longitude |-> 0, hr12_format |-> "undefined", mile_unit |-> "undefined"]

-----------------------------------------------------------------------------
(* The calls *)

Returned(op, id, arg, result) == [op |-> op, id |-> id, arg |-> arg, result |-> result]

\* adapter.moonData
CallMoonData(id, data, times) ==
    /\ id \in DOMAIN adapters
    /\ Consistent(moonDataAnswers, SourceKey(adapters[id]), data)
    /\ Consistent(moonTimesAnswers, SourceKey(adapters[id]), times)
    /\ moonDataAnswers' = Remember(moonDataAnswers, SourceKey(adapters[id]), data)
    /\ moonTimesAnswers' = Remember(moonTimesAnswers, SourceKey(adapters[id]), times)
    /\ last' = Returned("moonData", id, [data |-> data, times |-> times],
                        MoonData(adapters[id], data, times, now, timeZone))
    /\ UNCHANGED <<adapters, now, timeZone, localStorage, imageLog>>

\* adapter.todayDataItem
CallTodayDataItem(id, data, times) ==
    /\ id \in DOMAIN adapters
    /\ Consistent(moonDataAnswers, SourceKey(adapters[id]), data)
    /\ Consistent(moonTimesAnswers, SourceKey(adapters[id]), times)
    /\ moonDataAnswers' = Remember(moonDataAnswers, SourceKey(adapters[id]), data)
    /\ moonTimesAnswers' = Remember(moonTimesAnswers, SourceKey(adapters[id]), times)
    /\ last' = Returned("todayDataItem", id, [data |-> data, times |-> times],
                        TodayDataItem(adapters[id], data, times, now, timeZone))
    /\ UNCHANGED <<adapters, now, timeZone, localStorage, imageLog>>

\* adapter._convertCardinal(degrees)
CallConvertCardinal(id, degrees) ==
    /\ id \in DOMAIN adapters
    /\ last' = Returned("_convertCardinal", id, degrees, ConvertCardinal(degrees))
    /\ UNCHANGED <<adapters, now, moonDataAnswers, moonTimesAnswers, timeZone, localStorage, imageLog>>

\* adapter.createItem(label, value, unit, secondValue)
CallCreateItem(id, label, value, unit, secondValue) ==
    /\ id \in DOMAIN adapters
    /\ last' = Returned("createItem", id,
                        [label |-> label, value |-> value, unit |-> unit, secondValue |-> secondValue],
                        CreateItem(adapters[id], label, value, unit, secondValue))
    /\ UNCHANGED <<adapters, now, moonDataAnswers, moonTimesAnswers, timeZone, localStorage, imageLog>>

\* adapter.moonImage; the first and the latest result of each adapter are kept
CallMoonImage(id, data) ==
    /\ id \in DOMAIN adapters
    /\ Consistent(moonDataAnswers, SourceKey(adapters[id]), data)
    /\ moonDataAnswers' = Remember(moonDataAnswers, SourceKey(adapters[id]), data)
    /\ LET image == MoonImage(adapters[id], data)
       IN  /\ last' = Returned("moonImage", id, data, image)
           /\ imageLog' = [imageLog EXCEPT ![id] =
                               IF @ = <<>> THEN <<image>> ELSE <<@[1], image>>]
    /\ UNCHANGED <<adapters, now, moonTimesAnswers, timeZone, localStorage>>

\* adapter._getMoonRotation()
CallGetMoonRotation(id, data) ==
    /\ id \in DOMAIN adapters
    /\ Consistent(moonDataAnswers, SourceKey(adapters[id]), data)
    /\ moonDataAnswers' = Remember(moonDataAnswers, SourceKey(adapters[id]), data)
    /\ last' = Returned("_getMoonRotation", id, data, GetMoonRotation(adapters[id], data))
    /\ UNCHANGED <<adapters, now, moonTimesAnswers, timeZone, localStorage, imageLog>>

\* adapter._getAltituteData(startTime)
CallGetAltituteData(id, startTime, curve) ==
    /\ id \in DOMAIN adapters
    /\ last' = Returned("_getAltituteData", id, [startTime |-> startTime, curve |-> curve],
                        GetAltituteData(adapters[id], startTime, curve, timeZone))
    /\ UNCHANGED <<adapters, now, moonDataAnswers, moonTimesAnswers, timeZone, localStorage, imageLog>>

\* adapter.todayData; SunCalc.getMoonTimes is asked about the start of today
CallTodayData(id, curve, times, data) ==
    LET startKey == <<LocalDayStart(now, timeZone), adapters[id].location.latitude,
                      adapters[id].location.longitude>>
    IN  /\ id \in DOMAIN adapters
        /\ Consistent(moonTimesAnswers, startKey, times)
        /\ Consistent(moonDataAnswers, SourceKey(adapters[id]), data)
        /\ moonTimesAnswers' = Remember(moonTimesAnswers, startKey, times)
        /\ moonDataAnswers' = Remember(moonDataAnswers, SourceKey(adapters[id]), data)
        /\ last' = Returned("todayData", id, [curve |-> curve, today |-> now],
                            TodayData(adapters[id], now, curve, timeZone, times, data))
        /\ UNCHANGED <<adapters, now, timeZone, localStorage, imageLog>>

\* adapter.setMoonImagesToStorage(); localStorage.setItem stores the value or
\* throws (quota exceeded, storage disabled)
CallSetMoonImagesToStorage(id, accepted) ==
    /\ id \in DOMAIN adapters
    /\ IF accepted
       THEN /\ localStorage' = [k \in DOMAIN localStorage \cup {"moonImages"} |->
                                   IF k = "moonImages" THEN StoredImages ELSE localStorage[k]]
            /\ last' = Returned("setMoonImagesToStorage", id, accepted, Undefined)
       ELSE /\ localStorage' = localStorage
            /\ last' = Returned("setMoonImagesToStorage", id, accepted, Raised("DOMException"))
    /\ UNCHANGED <<adapters, now, moonDataAnswers, moonTimesAnswers, timeZone, imageLog>>

\* time passes
Tick ==
    /\ now < MaxNow * NowStep
    /\ now' = now + NowStep
    /\ UNCHANGED <<adapters, moonDataAnswers, moonTimesAnswers, timeZone, localStorage, last, imageLog>>

\* The state after the adapters are constructed, with the answers the source
\* is already known to give
Constructed(built, tz, dataAnswers, timesAnswers) ==
    /\ adapters = built
    /\ now = 0
    /\ moonDataAnswers = dataAnswers
    /\ moonTimesAnswers = timesAnswers
    /\ timeZone = tz
    /\ localStorage = [k \in {} |-> Undefined]
    /\ last = Returned("constructor", "a", Undefined, Undefined)
    /\ imageLog = [id \in DOMAIN built |-> <<>>]

-----------------------------------------------------------------------------
(* Specification of the compass direction: _convertCardinal and its caller *)

AzimuthGrid == 0..(MaxAzimuthDeg * AzimuthScale)

\* The adapter is built and the sky of its moment is drawn; the calls get the
\* source's answers for that moment
InitCardinal ==
    \E az \in AzimuthGrid, alt \in {-MaxAltitude, MaxAltitude},
       times \in {BaseTimes, [BaseTimes EXCEPT !.highest = Undefined]} :
        LET self == Constructor([date |-> 0, lang |-> "en", config |-> BaseConfig,
                                 locale |-> "comma_decimal"])
        IN  Constructed("a" :> self, NoDst,
                        SourceKey(self) :> [BaseData EXCEPT !.azimuthDegrees = az,
                                                            !.altitudeDegrees = alt],
                        SourceKey(self) :> times)

NextCardinal ==
    \/ CallConvertCardinal("a", DataAnswer("a").azimuthDegrees)
    \/ CallTodayDataItem("a", DataAnswer("a"), TimesAnswer("a"))

SpecCardinal == InitCardinal /\ [][NextCardinal]_vars

\* C1 as stated: _convertCardinal(44) is "N" and _convertCardinal(46) is "NE".
C1_AsStated ==
    last.op = "_convertCardinal" =>
        /\ last.arg = 44 * AzimuthScale => last.result = Str("N")
        /\ last.arg = 46 * AzimuthScale => last.result = Str("NE")

\* C1 amended: _convertCardinal(44) and _convertCardinal(46) are both "NE";
\* the boundary between N and NE lies at 22.5 degrees: every azimuth from 0
\* to below 22.5 gives "N", every azimuth from 22.5 to below 67.5 gives "NE".
C1_BoundaryAt22_5 ==
    last.op = "_convertCardinal" =>
        /\ last.arg \in {44 * AzimuthScale, 46 * AzimuthScale} => last.result = Str("NE")
        /\ 2 * last.arg < 45 * AzimuthScale => last.result = Str("N")
        /\ (45 * AzimuthScale <= 2 * last.arg /\ 2 * last.arg < 135 * AzimuthScale)
               => last.result = Str("NE")

C1_Witness ==
    /\ last.op = "_convertCardinal"
    /\ last.arg = 44 * AzimuthScale
    /\ last.result = Str("NE")

Compass8 == <<Str("N"), Str("NE"), Str("E"), Str("SE"), Str("S"), Str("SW"), Str("W"), Str("NW")>>

\* round(azimuth / 45) mod 8 into the 8-point table
ReferenceCardinal(az) ==
    Compass8[(((2 * az + 45 * AzimuthScale) \div (90 * AzimuthScale)) % 8) + 1]

\* C5: for every azimuth in [0, 360] _convertCardinal returns the direction
\* that round(azimuth / 45) mod 8 selects in the 8-point table, always one of
\* the eight directions, and "N" for 0 and for 360; the direction shown by
\* todayDataItem is that direction of the source's azimuth.
C5_CardinalMatchesReference ==
    /\ last.op = "_convertCardinal" =>
           /\ last.result = ReferenceCardinal(last.arg)
           /\ \E j \in 1..8 : last.result = Compass8[j]
           /\ last.arg \in {0, 360 * AzimuthScale} => last.result = Str("N")
    /\ (last.op = "todayDataItem" /\ ~IsRaised(last.result)) =>
           last.result.azimuthCardinal.secondValue
               = ReferenceCardinal(last.arg.data.azimuthDegrees)

C5_Witness ==
    /\ last.op = "todayDataItem"
    /\ last.arg.data.azimuthDegrees = 360 * AzimuthScale
    /\ ~IsRaised(last.result)
    /\ last.result.azimuthCardinal.secondValue = Str("N")

-----------------------------------------------------------------------------
(* Specification of the snapshot: moonData, createItem, the image cache *)

Distances ==
    {[whole |-> w, nano |-> m * 1000000] : w \in {356500, 384400, 406700}, m \in 0..MaxMilli}

\* the units createItem is called with: none, empty, and the snapshot's units
Units(self) ==
    {Undefined, Str(""), Str("%"), Str("°"), Str("km"), Str("mi"),
     AdapterLocalize(self, "card.relativeTime.days", Str(""))}

Init ==
    \E lang \in Langs, mile \in Flags, distance \in Distances, times \in AllTimes :
        LET self == Constructor([date |-> 0, lang |-> lang,
                                 config |-> [BaseConfig EXCEPT !.mile_unit = mile],
                                 locale |-> "comma_decimal"])
        IN  Constructed("a" :> self, NoDst,
                        SourceKey(self) :> [BaseData EXCEPT !.distance = distance],
                        SourceKey(self) :> times)

Next ==
    \/ CallMoonData("a", DataAnswer("a"), TimesAnswer("a"))
    \/ \E unit \in Units(adapters["a"]), secondValue \in {Undefined, Str("second")} :
           CallCreateItem("a", "label", Str("12"), unit, secondValue)
    \/ \E accepted \in BOOLEAN : CallSetMoonImagesToStorage("a", accepted)

Spec == Init /\ [][Next]_vars

IsItem(x) == x # Undefined /\ ~IsRaised(x) /\ DOMAIN x = {"label", "value", "secondValue"}

\* C3: moonData never raises for a valid astronomical sample; an event that is
\* absent for the day (no rise, no set, no transit) is an absent field of the
\* snapshot.
C3_NeverRaises ==
    last.op = "moonData" =>
        /\ ~IsRaised(last.result)
        /\ last.result.moonRise = Undefined <=> ~Truthy(last.arg.times.rise)
        /\ last.result.moonSet = Undefined <=> ~Truthy(last.arg.times.set)
        /\ last.result.moonHighest = Undefined <=> ~Truthy(last.arg.times.highest)

NineOthers ==
    {"moonFraction", "moonAge", "moonRise", "moonSet", "distance", "azimuthDegress",
     "altitudeDegrees", "nextFullMoon", "nextNewMoon"}

\* C6: the snapshot's moonHighest is present exactly when the source supplied
\* a highest-transit instant; without one the field is undefined and the
\* other nine named fields are still produced.
C6_HighestIffSupplied ==
    last.op = "moonData" =>
        /\ ~IsRaised(last.result)
        /\ IsItem(last.result.moonHighest) <=> Truthy(last.arg.times.highest)
        /\ ~Truthy(last.arg.times.highest) =>
               /\ last.result.moonHighest = Undefined
               /\ \A f \in NineOthers : IsItem(last.result[f])

SpaceBeforePercent == {"cs", "de", "fi", "fr", "sk", "sv"}

\* the separator rule of C7 for one item built with 'unit' in language 'lang'
SeparatorRule(item, unit, lang) ==
    /\ unit = Str("%") =>
           /\ item.value.unit = unit
           /\ item.value.sep = (IF lang \in SpaceBeforePercent THEN Str(" ") ELSE Str(""))
    /\ unit = Str("°") => item.value.unit = unit /\ item.value.sep = Str("")
    /\ unit \notin {Undefined, Str(""), Str("%"), Str("°")} =>
           item.value.unit = unit /\ item.value.sep = Str(" ")
    /\ unit \in {Undefined, Str("")} =>
           item.value.unit = Str("") /\ item.value.sep = Str("")

\* C7: in every item built by createItem, a space stands before "%" exactly
\* in cs, de, fi, fr, sk, sv; no space stands before "°" in any language;
\* exactly one space stands before any other non-empty unit; without a unit
\* nothing is appended to the value.
C7_SeparatorRule ==
    /\ last.op = "createItem" =>
           /\ last.result.value.text = last.arg.value
           /\ SeparatorRule(last.result, last.arg.unit, adapters[last.id].lang)
    /\ (last.op = "moonData" /\ ~IsRaised(last.result)) =>
           LET lang == adapters[last.id].lang
           IN  /\ SeparatorRule(last.result.moonFraction, Str("%"), lang)
               /\ SeparatorRule(last.result.azimuthDegress, Str("°"), lang)
               /\ SeparatorRule(last.result.altitudeDegrees, Str("°"), lang)
               /\ SeparatorRule(last.result.distance, last.result.distance.value.unit, lang)
               /\ last.result.distance.value.unit \in {Str("km"), Str("mi")}
               /\ SeparatorRule(last.result.moonAge,
                                 Localize("card.relativeTime.days", lang, Str("")), lang)
               /\ SeparatorRule(last.result.moonRise, Str(""), lang)
               /\ SeparatorRule(last.result.nextFullMoon, Undefined, lang)

C7_Witness ==
    /\ last.op = "createItem"
    /\ adapters[last.id].lang = "fr"
    /\ last.arg.unit = Str("%")
    /\ last.result.value = [text |-> Str("12"), sep |-> Str(" "), unit |-> Str("%")]

\* C8: a write of the image list that the store rejects is ignored:
\* setMoonImagesToStorage returns normally.
C8_WriteIsBestEffort ==
    last.op = "setMoonImagesToStorage" => ~IsRaised(last.result)

\* C10: the distance item is the source's kilometres with unit "km" when
\* useMiles is false, and the kilometres times 0.621371 with unit "mi" when
\* useMiles is true (384400 km is 238855 mi within 1); the 2 decimals are
\* taken after the conversion.
C10_DistanceFollowsUnit ==
    (last.op = "moonData" /\ ~IsRaised(last.result)) =>
        LET km == last.arg.data.distance
            item == last.result.distance
        IN  /\ ~adapters[last.id].useMiles =>
                   /\ item.value.unit = Str("km")
                   /\ item.value.text.scaled = DistanceToFixed2(km)
            /\ adapters[last.id].useMiles =>
                   /\ item.value.unit = Str("mi")
                   /\ item.value.text.scaled = DistanceToFixed2(ConvertKmToMilesHelper(km, TRUE))
                   /\ km = [whole |-> 384400, nano |-> 0] =>
                          (item.value.text.scaled >= 23885400 /\ item.value.text.scaled <= 23885600)

\* a distance in miles whose 2 decimals differ when the kilometres are rounded first
C10_Witness ==
    /\ last.op = "moonData"
    /\ ~IsRaised(last.result)
    /\ adapters[last.id].useMiles
    /\ last.result.distance.value.unit = Str("mi")
    /\ LET km == last.arg.data.distance
           h == DistanceToFixed2(km)
           rounded == [whole |-> h \div 100, nano |-> (h % 100) * 10000000]
       IN  last.result.distance.value.text.scaled
               # DistanceToFixed2(ConvertKmToMilesHelper(rounded, TRUE))

-----------------------------------------------------------------------------
(* Specification of the picture: moonImage over the phase values *)

InitPhase ==
    \E k \in 0..(PhaseDen - 1), z \in 0..AngleSteps, q \in (-AngleSteps)..AngleSteps :
        LET self == Constructor([date |-> 0, lang |-> "en", config |-> BaseConfig,
                                 locale |-> "comma_decimal"])
        IN  Constructed("a" :> self, NoDst,
                        SourceKey(self) :> [BaseData EXCEPT !.phaseValue = k,
                                                            !.zenithAngle = z,
                                                            !.parallacticAngle = q],
                        SourceKey(self) :> BaseTimes)

NextPhase ==
    \/ CallMoonImage("a", DataAnswer("a"))
    \/ CallGetMoonRotation("a", DataAnswer("a"))

SpecPhase == InitPhase /\ [][NextPhase]_vars

\* C4: for every phaseValue in [0, 1) the index floor(phaseValue * 31) mod 31
\* lies in 0..30, so moonImage's picture is one of the 31 MOON_IMAGES and
\* never undefined.
C4_PictureIsOneOf31 ==
    (last.op = "moonImage" /\ last.arg.phaseValue < PhaseDen) =>
        /\ last.result.moonPic # Undefined
        /\ \E i \in 0..30 :
               /\ last.result.moonPic = MOON_IMAGES[i]
               /\ i * PhaseDen <= 31 * last.arg.phaseValue
               /\ 31 * last.arg.phaseValue < (i + 1) * PhaseDen

C4_Witness ==
    /\ last.op = "moonImage"
    /\ last.arg.phaseValue = PhaseDen - 1
    /\ last.result.moonPic = MOON_IMAGES[30]

-----------------------------------------------------------------------------
(* Specification of two adapters: moonImage among other calls, as time passes *)

ImageData ==
    {[BaseData EXCEPT !.phaseValue = k, !.zenithAngle = z] :
        k \in {0, PhaseDen \div 2}, z \in {0, 1}}

InitImage ==
    \E date \in {0, NowStep}, latitude \in {0, 1}, longitude \in {0, 1} :
        Constructed(
            ("a" :> Constructor([date |-> 0, lang |-> "en", config |-> BaseConfig,
                                 locale |-> "comma_decimal"]))
            @@ ("b" :> Constructor([date |-> date, lang |-> "en",
                                    config |-> [BaseConfig EXCEPT !.latitude = latitude,
                                                                  !.longitude = longitude],
                                    locale |-> "comma_decimal"])),
            NoDst, NoAnswers, NoAnswers)

NextImage ==
    \/ \E id \in {"a", "b"}, data \in ImageData : CallMoonImage(id, data)
    \/ \E id \in {"a", "b"}, data \in ImageData : CallGetMoonRotation(id, data)
    \/ \E id \in {"a", "b"}, data \in ImageData : CallMoonData(id, data, BaseTimes)
    \/ Tick

SpecImage == InitImage /\ [][NextImage]_vars

\* C9: two evaluations of moonImage, on one adapter or on two adapters with
\* the same date, latitude and longitude, return the same picture and the
\* same rotation angle, whatever was called and however much time passed in
\* between.
C9_ImageIsDeterministic ==
    \A a \in DOMAIN adapters, b \in DOMAIN adapters :
        (/\ adapters[a]._date = adapters[b]._date
         /\ adapters[a].location = adapters[b].location) =>
            \A i \in DOMAIN imageLog[a], j \in DOMAIN imageLog[b] :
                imageLog[a][i] = imageLog[b][j]

C9_Witness ==
    /\ adapters["a"]._date = adapters["b"]._date
    /\ adapters["a"].location = adapters["b"].location
    /\ Len(imageLog["a"]) = 2
    /\ Len(imageLog["b"]) = 2
    /\ now = MaxNow * NowStep
    /\ DOMAIN moonTimesAnswers # {}
    /\ last.op = "moonImage"
    /\ last.result.moonPic = MOON_IMAGES[15]

-----------------------------------------------------------------------------
(* Specification of the altitude profile: _getAltituteData and todayData *)

SpringForward == [transition |-> 2 * 60, shift |-> 60]    \* 02:00 becomes 03:00
FallBack == [transition |-> 3 * 60, shift |-> -60]        \* 03:00 becomes 02:00

Curves == [top : {-15005, 20000, 45678}, peakAt : {5 * 60, 12 * 60}, rate : {1234}]

InitProfile ==
    \E hr12 \in Flags, tz \in {NoDst, SpringForward, FallBack} :
        LET self == Constructor([date |-> 0, lang |-> "en",
                                 config |-> [BaseConfig EXCEPT !.hr12_format = hr12],
                                 locale |-> "comma_decimal"])
        IN  Constructed("a" :> self, tz, SourceKey(self) :> BaseData, SourceKey(self) :> BaseTimes)

NextProfile ==
    \/ \E day \in 0..MaxNow, curve \in Curves :
           CallGetAltituteData("a", DateOf(LocalDayStart(day * MinutesPerDay + NowStep, timeZone)),
                               curve)
    \/ \E curve \in Curves : CallTodayData("a", curve, BaseTimes, DataAnswer("a"))
    \/ Tick

SpecProfile == InitProfile /\ [][NextProfile]_vars

\* the 48 instants of the day that starts at startTime hold one sample each
FortyEightSamples(self, startTime, keys, values, curve) ==
    /\ Len(keys) = 48
    /\ Len(values) = 48
    /\ \A i \in 0..47 :
           /\ keys[i + 1] = FormatTime(self, DateOf(startTime.t + i * 30), timeZone)
           /\ values[i + 1] = RoundHalfUp(AltitudeAt(curve, startTime.t + i * 30), 10)

\* C2: the altitude profile always holds exactly 48 samples, one for each
\* instant dayStart + i * 30 minutes, i in 0..47, for every day start and
\* every clock and locale setting, also when two instants get the same label.
C2_AlwaysFortyEightSamples ==
    /\ last.op = "_getAltituteData" =>
           FortyEightSamples(adapters[last.id], last.arg.startTime,
                             ObjectKeys(last.result), ObjectValues(last.result),
                             last.arg.curve)
    /\ last.op = "todayData" =>
           FortyEightSamples(adapters[last.id],
                             DateOf(LocalDayStart(last.arg.today, timeZone)),
                             last.result.timeLabels, last.result.altitudeData,
                             last.arg.curve)

\* C11: for the altitude series of todayData, sugestedYMax is
\* ceil(max(altitudes) + 10) and sugestedYMin is min(altitudes) - 10, both
\* over exactly the series returned as altitudeData (the values of
\* _getAltituteData); so every altitude a of the series satisfies
\* sugestedYMin + 10 <= a <= sugestedYMax - 10.  Altitudes and sugestedYMin
\* are in hundredths of a degree, sugestedYMax in degrees.
C11_BoundsEncloseSeries ==
    last.op = "todayData" =>
        LET series == last.result.altitudeData
            yMax == last.result.minMaxY.sugestedYMax
            yMin == last.result.minMaxY.sugestedYMin
        IN  /\ series = ObjectValues(last.result.altitude)
            /\ \E j \in DOMAIN series :
                   /\ \A n \in DOMAIN series : series[n] <= series[j]
                   /\ yMax * 100 >= series[j] + 1000
                   /\ (yMax - 1) * 100 < series[j] + 1000
            /\ \E j \in DOMAIN series :
                   /\ \A n \in DOMAIN series : series[n] >= series[j]
                   /\ yMin = series[j] - 1000
            /\ \A n \in DOMAIN series :
                   yMin + 1000 <= series[n] /\ series[n] <= yMax * 100 - 1000

\* a day with a clock change, a highest altitude that is no whole degree
C11_Witness ==
    /\ last.op = "todayData"
    /\ timeZone # NoDst
    /\ Len(last.result.altitudeData) < 48
    /\ last.result.minMaxY.sugestedYMax = -5
    /\ \A n \in DOMAIN last.result.altitudeData : last.result.altitudeData[n] <= -1501

====
